---- MODULE Spec2Model ----
(***************************************************************************)
(* Cashalyse dashboard (src/script.js): a form with four numeric inputs,   *)
(* a validator, the metrics pipeline (runway, burn, invoice risk,          *)
(* insights) and the DOM it writes to.                                     *)
(*                                                                         *)
(* Numbers.  A JavaScript number is modelled as a record                   *)
(*   [k |-> "num", n |-> numerator, d |-> denominator]   (reduced, d > 0)  *)
(* or one of NaN, Infinity, NegInfinity.  Arithmetic on finite values is   *)
(* exact (rounding to 53 bits is not modelled) but the range is kept: a    *)
(* quotient whose magnitude exceeds MAX_VALUE is Infinity, as in IEEE 754. *)
(* MAX_VALUE stands for Number.MAX_VALUE on a reduced scale: it is larger  *)
(* than every quotient of two other amounts of the model, so a quotient    *)
(* overflows in the model only where it overflows in IEEE 754 doubles      *)
(* (the dividend is MAX_VALUE and the divisor is below 1).                 *)
(***************************************************************************)
EXTENDS Integers, Sequences, FiniteSets, TLC

\* Largest finite number of the reduced number format (Number.MAX_VALUE).
MAX_VALUE == 1000000

\* Largest number of timer callbacks that may be pending at once.
MaxPending == 2

----------------------------------------------------------------------------
\* Numbers

Abs(x) == IF x < 0 THEN -x ELSE x

RECURSIVE GCD(_, _)
GCD(a, b) == IF b = 0 THEN a ELSE GCD(b, a % b)

NaN == [k |-> "NaN", n |-> 0, d |-> 1]
Infinity == [k |-> "Infinity", n |-> 0, d |-> 1]
NegInfinity == [k |-> "-Infinity", n |-> 0, d |-> 1]

\* The finite number n/d (d > 0), reduced.
Rat(n, d) ==
  LET g == GCD(Abs(n), d)
  IN [k |-> "num", n |-> n \div g, d |-> d \div g]

Num(i) == Rat(i, 1)

\* x is a finite rational whose magnitude exceeds MAX_VALUE.
OutOfRange(x) ==
  LET q == Abs(x.n) \div x.d
  IN q > MAX_VALUE \/ (q = MAX_VALUE /\ Abs(x.n) % x.d # 0)

\* Round an exact result into the number format (overflow to +-Infinity).
Fl(x) ==
  IF OutOfRange(x) THEN (IF x.n < 0 THEN NegInfinity ELSE Infinity) ELSE x

\* a < b
Lt(a, b) ==
  CASE a.k = "NaN" \/ b.k = "NaN" -> FALSE
    [] a.k = "Infinity" -> FALSE
    [] b.k = "-Infinity" -> FALSE
    [] a.k = "-Infinity" -> TRUE
    [] b.k = "Infinity" -> TRUE
    [] OTHER -> a.n * b.d < b.n * a.d

\* a === b
StrictEq(a, b) == a.k # "NaN" /\ b.k # "NaN" /\ a = b

\* a <= b
Le(a, b) == Lt(a, b) \/ StrictEq(a, b)

\* a >= b
Ge(a, b) == Le(b, a)

\* a - b
Sub(a, b) ==
  CASE a.k = "NaN" \/ b.k = "NaN" -> NaN
    [] a.k = "num" /\ b.k = "num" -> Fl(Rat(a.n * b.d - b.n * a.d, a.d * b.d))
    [] a.k = "num" -> (IF b.k = "Infinity" THEN NegInfinity ELSE Infinity)
    [] b.k = "num" -> a
    [] OTHER -> (IF a.k = b.k THEN NaN ELSE a)

\* a / b
Div(a, b) ==
  CASE a.k = "NaN" \/ b.k = "NaN" -> NaN
    [] a.k = "num" /\ b.k = "num" ->
         IF b.n = 0
         THEN (IF a.n = 0 THEN NaN ELSE IF a.n < 0 THEN NegInfinity ELSE Infinity)
         ELSE LET s == IF b.n < 0 THEN -1 ELSE 1
                  g1 == GCD(Abs(a.n), Abs(b.n))
                  g2 == GCD(a.d, b.d)
                  nn == IF a.n = 0 THEN 0 ELSE (s * (a.n \div g1)) * (b.d \div g2)
                  dd == IF a.n = 0 THEN 1 ELSE (a.d \div g2) * (Abs(b.n) \div g1)
              IN Fl(Rat(nn, dd))
    [] a.k = "num" -> Num(0)
    [] b.k = "num" ->
         (IF (a.k = "Infinity") = (b.n >= 0) THEN Infinity ELSE NegInfinity)
    [] OTHER -> NaN

\* Number.isFinite(n)
IsFinite(x) == x.k = "num"

\* Number.isNaN(v)
IsNaN(x) == x.k = "NaN"

----------------------------------------------------------------------------
\* Helpers

\* The texts a form field may hold in the model.
RawValues ==
  {"", "abc", "Infinity", "-5", "0", "0.5", "1000", "2000", "2000.01",
   "5999.99", "6000", "1.7976931348623157e308"}

\* Number(value) for the field texts above: the empty string converts to 0,
\* text that is no numeric literal to NaN, "Infinity" to Infinity, and
\* Number.MAX_VALUE's literal to the largest finite number.
Number(value) ==
  CASE value = "" -> Num(0)
    [] value = "abc" -> NaN
    [] value = "Infinity" -> Infinity
    [] value = "-5" -> Num(-5)
    [] value = "0" -> Num(0)
    [] value = "0.5" -> Rat(1, 2)
    [] value = "1000" -> Num(1000)
    [] value = "2000" -> Num(2000)
    [] value = "2000.01" -> Rat(200001, 100)
    [] value = "5999.99" -> Rat(599999, 100)
    [] value = "6000" -> Num(6000)
    [] value = "1.7976931348623157e308" -> Num(MAX_VALUE)

toNumber(value) ==
  LET n == Number(value)
  IN IF IsFinite(n) THEN n ELSE NaN

\* Math.round(x) for finite x: floor(x + 1/2); a result of zero keeps the
\* sign of a negative argument (-0).
MathRound(x) ==
  LET r == (2 * x.n + x.d) \div (2 * x.d)
  IN [minus |-> x.n < 0 /\ r <= 0, digits |-> Abs(r)]

\* formatGBP(amount): the pound sign followed by the rounded amount in the
\* locale's grouping; the text is determined by the sign and the integer.
formatGBP(amount) ==
  IF IsFinite(amount)
  THEN [k |-> "num", minus |-> MathRound(amount).minus,
        digits |-> MathRound(amount).digits]
  ELSE [k |-> amount.k, minus |-> amount.k = "-Infinity", digits |-> 0]

\* x.toFixed(1) for finite x below 1e21: the sign and the number of tenths
\* nearest to |x|, ties to the larger.
toFixed1(x) ==
  IF IsFinite(x)
  THEN [k |-> "num", minus |-> x.n < 0,
        tenths |-> (20 * Abs(x.n) + x.d) \div (2 * x.d)]
  ELSE [k |-> x.k, minus |-> x.k = "-Infinity", tenths |-> 0]

StatusClasses == {"status-ok", "status-warn", "status-bad"}
BadgeClasses == {"badge-ok", "badge-warn", "badge-bad"}
FaceClasses == {"badge-face-ok", "badge-face-warn", "badge-face-bad"}

clearStatusClasses(el) ==
  [el EXCEPT !.classList = @ \ {"status-ok", "status-warn", "status-bad"}]

clearBadgeClasses(el) ==
  [el EXCEPT !.classList = @ \ {"badge-ok", "badge-warn", "badge-bad"}]

getFaceBadge(level) ==
  IF level = "ok"
  THEN [html |-> "fa-face-smile Good", className |-> "badge-face-ok",
        aria |-> "Good"]
  ELSE IF level = "warn"
  THEN [html |-> "fa-face-meh Neutral", className |-> "badge-face-warn",
        aria |-> "Neutral"]
  ELSE [html |-> "fa-face-frown Poor", className |-> "badge-face-bad",
        aria |-> "Poor"]

----------------------------------------------------------------------------
\* Business logic

\* calculateRunwayMonths with the guard burn < 0.
calculateRunwayMonthsStrictGuard(cash, income, expenses) ==
  LET burn == Sub(expenses, income)
  IN IF Lt(burn, Num(0)) THEN Infinity ELSE Div(cash, burn)

calculateRunwayMonths(cash, income, expenses) ==
  LET burn == Sub(expenses, income)
  IN IF Le(burn, Num(0)) THEN Infinity ELSE Div(cash, burn)

\* getCashHealthStatus with exclusive thresholds.
getCashHealthStatusExclusive(runwayMonths) ==
  IF StrictEq(runwayMonths, Infinity) THEN [label |-> "Healthy", level |-> "ok"]
  ELSE IF Lt(Num(6), runwayMonths) THEN [label |-> "Healthy", level |-> "ok"]
  ELSE IF Lt(Num(3), runwayMonths) THEN [label |-> "Watch", level |-> "warn"]
  ELSE [label |-> "Critical", level |-> "bad"]

getCashHealthStatus(runwayMonths) ==
  IF StrictEq(runwayMonths, Infinity) THEN [label |-> "Healthy", level |-> "ok"]
  ELSE IF Ge(runwayMonths, Num(6)) THEN [label |-> "Healthy", level |-> "ok"]
  ELSE IF Ge(runwayMonths, Num(3)) THEN [label |-> "Watch", level |-> "warn"]
  ELSE [label |-> "Critical", level |-> "bad"]

getBurnStatus(income, expenses) ==
  LET diff == Sub(income, expenses)
  IN IF Ge(diff, Num(0))
     THEN [label |-> "Surplus", level |-> "ok", amount |-> diff]
     ELSE [label |-> "Deficit", level |-> "bad", amount |-> diff]

\* getInvoiceRisk with an exclusive upper threshold.
getInvoiceRiskExclusive(overdue) ==
  IF Le(overdue, Num(0)) THEN [label |-> "Low", level |-> "ok"]
  ELSE IF Lt(overdue, Num(2000)) THEN [label |-> "Medium", level |-> "warn"]
  ELSE [label |-> "High", level |-> "bad"]

getInvoiceRisk(overdue) ==
  IF Le(overdue, Num(0)) THEN [label |-> "Low", level |-> "ok"]
  ELSE IF Le(overdue, Num(2000)) THEN [label |-> "Medium", level |-> "warn"]
  ELSE [label |-> "High", level |-> "bad"]

\* The card and the badge after setCardStatus(cardEl, badgeEl, statusLevel).
setCardStatus(cardEl, badgeEl, statusLevel) ==
  LET card0 == clearStatusClasses(cardEl)
      badge0 == clearBadgeClasses(badgeEl)
      suffix == IF statusLevel = "ok" THEN "ok"
                ELSE IF statusLevel = "warn" THEN "warn" ELSE "bad"
      card1 == [card0 EXCEPT !.classList = @ \cup {"status-" \o suffix}]
      badge1 == [badge0 EXCEPT !.classList = @ \cup {"badge-" \o suffix}]
      face == getFaceBadge(statusLevel)
      badge2 == [badge1 EXCEPT !.classList =
                   (@ \ {"badge-face-ok", "badge-face-warn", "badge-face-bad"})
                     \cup {face.className}]
  IN [card |-> card1,
      badge |-> [badge2 EXCEPT !.innerHTML = face.html, !.ariaLabel = face.aria]]

\* items.slice(0, 2)
Slice2(items) == SubSeq(items, 1, IF Len(items) < 2 THEN Len(items) ELSE 2)

\* items.slice(0, 4)
Slice4(items) == SubSeq(items, 1, IF Len(items) < 4 THEN Len(items) ELSE 4)

\* renderInsights without emptying the list first.
renderInsightsNoClear(list, items) == list \o Slice4(items)

\* The children of insightsList after renderInsights(items): the list is
\* emptied, then one li is appended per item of the slice.
renderInsights(list, items) ==
  LET cleared == << >>
  IN cleared \o Slice4(items)

\* validateInputs(data): Object.values(data) are the four fields.
MsgNonNumeric == "Please enter numbers in all fields."
MsgNegative == "Values can't be negative."

FieldNames == {"cash", "income", "expenses", "overdue"}

\* validateInputs without its second check.
validateInputsNoNegativeCheck(d) ==
  IF \E f \in FieldNames : IsNaN(d[f]) THEN MsgNonNumeric ELSE ""

\* validateInputs with its two checks in the other order.
validateInputsNegativeFirst(d) ==
  IF \E f \in FieldNames : Lt(d[f], Num(0)) THEN MsgNegative
  ELSE IF \E f \in FieldNames : IsNaN(d[f]) THEN MsgNonNumeric
  ELSE ""

validateInputs(d) ==
  IF \E f \in FieldNames : IsNaN(d[f]) THEN MsgNonNumeric
  ELSE IF \E f \in FieldNames : Lt(d[f], Num(0)) THEN MsgNegative
  ELSE ""

----------------------------------------------------------------------------
\* State

VARIABLES
  fields,        \* the four form inputs' value texts
  submitted,     \* whether the submit listener has run
  errorMsg,      \* #errorMsg: textContent and whether class "hidden" is set
  updateBtn,     \* #updateBtn: textContent and disabled
  timers,        \* pending setTimeout callbacks (equal delay: FIFO), each
                 \* holding the data record its closure captured
  cards,         \* #cashCard, #burnCard, #invoiceCard: classList
  badges,        \* #cashBadge, ...: classList, innerHTML, aria-label
  texts,         \* textContent of the value and note elements
  insightsList,  \* the li children of #insightsList, in order
  engineArg,     \* << >>, or <<d>>: the argument of the last updateDashboard
  prevArg,       \* engineArg as it was before the last updateDashboard
  metrics,       \* << >>, or <<m>>: the locals of the last updateDashboard
  accepted,      \* log: the records of the submissions that passed validation
  applied        \* log: the arguments of the updateDashboard calls, in order

vars == <<fields, submitted, errorMsg, updateBtn, timers, cards, badges,
          texts, insightsList, engineArg, prevArg, metrics, accepted, applied>>

CardIds == {"cash", "burn", "invoice"}
TextIds == {"runwayValue", "cashNote", "burnValue", "burnNote",
            "invoiceValue", "invoiceNote"}

\* The insight messages (the en dash of "3-6 months" is written as a hyphen).
MsgRunwayCritical ==
  "Cash runway is under 3 months, consider reducing costs or improving revenue quickly."
MsgRunwayWatch ==
  "Cash runway is between 3-6 months, monitor closely and plan ahead."
MsgNoBurn ==
  "You currently have no monthly cash burn (income covers expenses)."
MsgCostReview ==
  "Expenses are higher than income, review recurring costs and pricing."
MsgChaseOverdue ==
  "High invoice risk, prioritise chasing overdue payments."
MsgFollowUp ==
  "Some invoices are overdue, consider a follow-up reminder."
MsgStable ==
  "Everything looks stable right now. Keep tracking monthly performance."

\* The insights array with the invoice rules tested before the burn rule.
BuildInsightsInvoiceFirst(runway, burnStatus, invoiceRisk) ==
  LET r1 == IF ~StrictEq(runway, Infinity) /\ Lt(runway, Num(3))
            THEN <<MsgRunwayCritical>> ELSE << >>
      r2 == IF ~StrictEq(runway, Infinity) /\ Ge(runway, Num(3))
               /\ Lt(runway, Num(6))
            THEN <<MsgRunwayWatch>> ELSE << >>
      r3 == IF StrictEq(runway, Infinity) THEN <<MsgNoBurn>> ELSE << >>
      r4 == IF burnStatus.label = "Deficit" THEN <<MsgCostReview>> ELSE << >>
      r5 == IF invoiceRisk.label = "High" THEN <<MsgChaseOverdue>> ELSE << >>
      r6 == IF invoiceRisk.label = "Medium" THEN <<MsgFollowUp>> ELSE << >>
      pushed == r1 \o r2 \o r3 \o r5 \o r6 \o r4
  IN IF Len(pushed) = 0 THEN <<MsgStable>> ELSE pushed

\* The insights array updateDashboard builds from its locals.
BuildInsights(runway, burnStatus, invoiceRisk) ==
  LET r1 == IF ~StrictEq(runway, Infinity) /\ Lt(runway, Num(3))
            THEN <<MsgRunwayCritical>> ELSE << >>
      r2 == IF ~StrictEq(runway, Infinity) /\ Ge(runway, Num(3))
               /\ Lt(runway, Num(6))
            THEN <<MsgRunwayWatch>> ELSE << >>
      r3 == IF StrictEq(runway, Infinity) THEN <<MsgNoBurn>> ELSE << >>
      r4 == IF burnStatus.label = "Deficit" THEN <<MsgCostReview>> ELSE << >>
      r5 == IF invoiceRisk.label = "High" THEN <<MsgChaseOverdue>> ELSE << >>
      r6 == IF invoiceRisk.label = "Medium" THEN <<MsgFollowUp>> ELSE << >>
      pushed == r1 \o r2 \o r3 \o r4 \o r5 \o r6
  IN IF Len(pushed) = 0 THEN <<MsgStable>> ELSE pushed

\* The locals of updateDashboard(d).
Metrics(d) ==
  LET runway == calculateRunwayMonths(d.cash, d.income, d.expenses)
      burnStatus == getBurnStatus(d.income, d.expenses)
      invoiceRisk == getInvoiceRisk(d.overdue)
  IN [runway |-> runway,
      cashStatus |-> getCashHealthStatus(runway),
      burnStatus |-> burnStatus,
      invoiceRisk |-> invoiceRisk,
      insights |-> BuildInsights(runway, burnStatus, invoiceRisk)]

\* The texts updateDashboard writes, by element.
DashboardTexts(d, m) ==
  [id \in TextIds |->
     CASE id = "runwayValue" ->
            [label |-> "Runway: ",
             noBurn |-> StrictEq(m.runway, Infinity),
             months |-> IF StrictEq(m.runway, Infinity)
                        THEN toFixed1(Num(0)) ELSE toFixed1(m.runway)]
       [] id = "cashNote" ->
            [text |-> IF StrictEq(m.runway, Infinity)
                      THEN "You're not burning cash right now."
                      ELSE "This estimates how long cash could last at the current burn rate."]
       [] id = "burnValue" ->
            [label |-> "Monthly: ", amount |-> formatGBP(m.burnStatus.amount)]
       [] id = "burnNote" ->
            [text |-> IF m.burnStatus.label = "Surplus"
                      THEN "Income covers expenses."
                      ELSE "Expenses exceed income."]
       [] id = "invoiceValue" ->
            [label |-> "Overdue: ", amount |-> formatGBP(d.overdue)]
       [] id = "invoiceNote" ->
            [text |-> IF m.invoiceRisk.label = "Low"
                      THEN "No overdue invoices recorded."
                      ELSE "Overdue invoices may affect cash flow."]]

\* The status level updateDashboard passes to setCardStatus, by card.
CardLevel(m, c) ==
  CASE c = "cash" -> m.cashStatus.level
    [] c = "burn" -> m.burnStatus.level
    [] c = "invoice" -> m.invoiceRisk.level

updateDashboard(d) ==
  LET m == Metrics(d)
  IN /\ engineArg' = <<d>>
     /\ prevArg' = engineArg
     /\ metrics' = <<m>>
     /\ texts' = DashboardTexts(d, m)
     /\ cards' = [c \in CardIds |->
                    setCardStatus(cards[c], badges[c], CardLevel(m, c)).card]
     /\ badges' = [c \in CardIds |->
                     setCardStatus(cards[c], badges[c], CardLevel(m, c)).badge]
     /\ insightsList' = renderInsights(insightsList, m.insights)

\* The record the submit handler builds from the form fields.
ReadForm(f) == [x \in FieldNames |-> toNumber(f[x])]

----------------------------------------------------------------------------
\* The page (src/script.js)

\* A form's field texts.
Form(c, i, e, o) == [cash |-> c, income |-> i, expenses |-> e, overdue |-> o]

\* What the user may have typed when the form is submitted: forms that pass
\* validation, and forms with a non-numeric or a negative field.
ValidForms ==
  {Form("", "", "", ""),
   Form("6000", "", "0", "0"),
   Form("6000", "", "2000", "0"),
   Form("6000", "1000", "2000", "2000"),
   Form("1000", "", "2000", "2000.01"),
   Form("1.7976931348623157e308", "0", "0.5", "0")}

InvalidForms ==
  {Form("abc", "1000", "2000", "0"),
   Form("6000", "-5", "2000", "0"),
   Form("6000", "1000", "Infinity", "0"),
   Form("-5", "1000", "2000", "abc")}

UIForms == ValidForms \cup InvalidForms

\* The status class the page's markup gives the cards before any update.
InitialLevels == {"none", "ok", "warn", "bad"}
InitialInsight == "(list item of the page's markup)"

InitDom(lvl) ==
  /\ cards = [c \in CardIds |->
                [classList |-> {"card"} \cup
                   (IF lvl = "none" THEN {} ELSE {"status-" \o lvl})]]
  /\ badges = [c \in CardIds |->
                 [classList |-> {"badge"} \cup
                    (IF lvl = "none" THEN {}
                     ELSE {"badge-" \o lvl, "badge-face-" \o lvl}),
                  innerHTML |-> "", ariaLabel |-> ""]]
  /\ texts = [id \in TextIds |-> [text |-> ""]]
  /\ insightsList = <<InitialInsight>>
  /\ errorMsg = [textContent |-> "", hidden |-> TRUE]
  /\ updateBtn = [textContent |-> "Update Dashboard", disabled |-> FALSE]
  /\ timers = << >>
  /\ submitted = FALSE
  /\ engineArg = << >>
  /\ prevArg = << >>
  /\ metrics = << >>
  /\ accepted = << >>
  /\ applied = << >>

Init ==
  /\ fields = [x \in FieldNames |-> ""]
  /\ \E lvl \in InitialLevels : InitDom(lvl)

\* The form's submit listener, for the field texts f.
Submit(f) ==
  LET d == ReadForm(f)
      e == validateInputs(d)
  IN /\ fields' = f
     /\ submitted' = TRUE
     /\ IF e # ""
        THEN /\ errorMsg' = [textContent |-> e, hidden |-> FALSE]
             /\ UNCHANGED <<updateBtn, timers>>
        ELSE /\ Len(timers) < MaxPending
             /\ errorMsg' = [errorMsg EXCEPT !.hidden = TRUE]
             /\ updateBtn' = [textContent |-> "Updating...", disabled |-> TRUE]
             /\ timers' = Append(timers, d)
     /\ UNCHANGED <<cards, badges, texts, insightsList, engineArg, prevArg,
                     metrics>>

\* The timer callback with one data record shared by all callbacks (the
\* callback sees the record of the latest submission, not its own).
TimerFiresSharedData ==
  /\ timers # << >>
  /\ updateDashboard(timers[Len(timers)])
  /\ updateBtn' = [textContent |-> "Update Dashboard", disabled |-> FALSE]
  /\ timers' = Tail(timers)
  /\ UNCHANGED <<fields, submitted, errorMsg>>

\* The callback of the oldest pending timer runs.
TimerFires ==
  /\ timers # << >>
  /\ updateDashboard(Head(timers))
  /\ updateBtn' = [textContent |-> "Update Dashboard", disabled |-> FALSE]
  /\ timers' = Tail(timers)
  /\ UNCHANGED <<fields, submitted, errorMsg>>

\* The logs are kept by SpecLogged below only.
Next ==
  \/ \E f \in UIForms : Submit(f) /\ UNCHANGED <<accepted, applied>>
  \/ TimerFires /\ UNCHANGED <<accepted, applied>>

Spec == Init /\ [][Next]_vars

----------------------------------------------------------------------------
\* The pipeline applied to one form: toNumber, validateInputs, and for a
\* record that passes validation updateDashboard, without the delay.

InitEngine ==
  /\ fields \in [FieldNames -> RawValues]
  /\ InitDom("none")

Evaluate ==
  LET d == ReadForm(fields)
      e == validateInputs(d)
  IN /\ ~submitted
     /\ submitted' = TRUE
     /\ IF e # ""
        THEN /\ errorMsg' = [textContent |-> e, hidden |-> FALSE]
             /\ UNCHANGED <<cards, badges, texts, insightsList, engineArg,
                            prevArg, metrics>>
        ELSE /\ errorMsg' = [errorMsg EXCEPT !.hidden = TRUE]
             /\ updateDashboard(d)
     /\ UNCHANGED <<fields, updateBtn, timers, accepted, applied>>

NextEngine == Evaluate

SpecEngine == InitEngine /\ [][NextEngine]_vars

----------------------------------------------------------------------------
\* Vocabulary of the properties, stated on the number records directly.

\* x is a finite number >= 0.
FiniteNonNeg(x) == x.k = "num" /\ x.n >= 0

\* Every field of the record d is a finite number >= 0.
ValidSnapshot(d) == \A x \in FieldNames : FiniteNonNeg(d[x])

\* For finite a, b: a <= b, and a < b.
FinLe(a, b) == a.n * b.d <= b.n * a.d
FinLt(a, b) == a.n * b.d < b.n * a.d

\* The record the last submit handler built, and what validateInputs
\* answered for it, as the page shows it.
Submitted == ReadForm(fields)
Shown == IF errorMsg.hidden THEN "" ELSE errorMsg.textContent

\* The last step was a run of the submit listener (a timer callback is the
\* only step that shortens the timer queue).
SubmitStep == submitted' /\ Len(timers') >= Len(timers)

----------------------------------------------------------------------------
\* Every record the engine was called with, or that waits in a timer, has
\* four finite non-negative fields.
C1_OnlyValid ==
  /\ engineArg # << >> => ValidSnapshot(engineArg[1])
  /\ \A i \in 1..Len(timers) : ValidSnapshot(timers[i])

\* A submission with a non-numeric or negative field shows one of the two
\* error messages, schedules no timer and calls nothing.
C1_Rejects ==
  (SubmitStep /\ ~ValidSnapshot(ReadForm(fields')))
    => /\ ~errorMsg'.hidden
       /\ errorMsg'.textContent \in {MsgNonNumeric, MsgNegative}
       /\ timers' = timers
       /\ engineArg' = engineArg
       /\ metrics' = metrics

\* C1: updateDashboard is only ever called with a record whose four fields
\* are finite and non-negative, and no other record waits in a timer; a
\* submission with a non-numeric or negative field shows an error message
\* and neither schedules a timer nor calls updateDashboard.
C1_EngineOnlySeesValidRecords == [](C1_OnlyValid) /\ [][C1_Rejects]_vars

\* A submission was rejected after the engine had already run once.
C1_Witness ==
  /\ submitted
  /\ ~ValidSnapshot(Submitted)
  /\ ~errorMsg.hidden
  /\ engineArg # << >>

\* C2: a NaN field gives the non-numeric message even next to a negative
\* field; the negative message needs no NaN field and some negative field;
\* the empty result needs every field to be a number >= 0.
C2_ValidationMessages ==
  submitted =>
    LET d == Submitted
        someNaN == \E x \in FieldNames : d[x].k = "NaN"
        someNeg == \E x \in FieldNames : d[x].k = "num" /\ d[x].n < 0
    IN /\ Shown \in {"", MsgNonNumeric, MsgNegative}
       /\ someNaN => Shown = MsgNonNumeric
       /\ Shown = MsgNegative <=> (~someNaN /\ someNeg)
       /\ Shown = "" <=> \A x \in FieldNames : d[x].k = "num" /\ d[x].n >= 0

\* A record with a NaN field and a negative field got the non-numeric message.
C2_Witness ==
  /\ submitted
  /\ \E x \in FieldNames : Submitted[x].k = "NaN"
  /\ \E x \in FieldNames : Submitted[x].k = "num" /\ Submitted[x].n < 0
  /\ Shown = MsgNonNumeric

\* C3: with expenses <= income the runway is Infinity and the cash health
\* is Healthy/ok, whatever cash is.
C3_NoBurnIsHealthy ==
  (engineArg # << >> /\ FinLe(engineArg[1].expenses, engineArg[1].income))
    => /\ metrics[1].runway = Infinity
       /\ metrics[1].cashStatus = [label |-> "Healthy", level |-> "ok"]

\* The engine ran with cash = 0 and expenses = income.
C3_Witness ==
  /\ engineArg # << >>
  /\ engineArg[1].cash = Num(0)
  /\ engineArg[1].expenses = engineArg[1].income
  /\ metrics[1].runway = Infinity

\* C4: with expenses > income the runway is the quotient
\* cash / (expenses - income), a finite number >= 0.
C4_RunwayIsFiniteQuotient ==
  (engineArg # << >> /\ FinLt(engineArg[1].income, engineArg[1].expenses))
    => LET d == engineArg[1]
           r == metrics[1].runway
           burn == Rat(d.expenses.n * d.income.d - d.income.n * d.expenses.d,
                       d.expenses.d * d.income.d)
       IN /\ r.k = "num"
          /\ r.n >= 0
          /\ r = LET g == GCD(d.cash.d, burn.d)
                 IN Rat(d.cash.n * (burn.d \div g), (d.cash.d \div g) * burn.n)

\* C5: every runway value falls in exactly one class, with inclusive lower
\* boundaries: Infinity or >= 6 Healthy/ok, [3, 6) Watch/warn, < 3
\* Critical/bad.
C5_CashHealthClasses ==
  metrics # << >> =>
    LET r == metrics[1].runway
        c == metrics[1].cashStatus
        healthy == r.k = "Infinity" \/ (r.k = "num" /\ r.n >= 6 * r.d)
        watch == r.k = "num" /\ r.n >= 3 * r.d /\ r.n < 6 * r.d
        critical == r.k = "num" /\ r.n < 3 * r.d
    IN /\ c = [label |-> "Healthy", level |-> "ok"] <=> healthy
       /\ c = [label |-> "Watch", level |-> "warn"] <=> watch
       /\ c = [label |-> "Critical", level |-> "bad"] <=> critical
       /\ (healthy /\ ~watch /\ ~critical) \/ (~healthy /\ watch /\ ~critical)
            \/ (~healthy /\ ~watch /\ critical)

\* A runway just below 6 (5.9999900) was classified Watch/warn.
C5_Witness ==
  /\ metrics # << >>
  /\ metrics[1].runway = Rat(599999, 100000)
  /\ metrics[1].cashStatus = [label |-> "Watch", level |-> "warn"]

C7_InsightsOneToFour ==
  metrics # << >> =>
    /\ Len(metrics[1].insights) >= 1
    /\ Len(metrics[1].insights) <= 4
    /\ insightsList = metrics[1].insights

\* An update produced three insights, all on the page.
C7_Witness ==
  /\ metrics # << >>
  /\ Len(metrics[1].insights) = 3
  /\ Len(insightsList) = 3

\* The six rules' conditions on the locals of the last updateDashboard.
RuleHolds(m, i) ==
  CASE i = 1 -> m.runway.k = "num" /\ m.runway.n < 3 * m.runway.d
    [] i = 2 -> m.runway.k = "num" /\ m.runway.n >= 3 * m.runway.d
                  /\ m.runway.n < 6 * m.runway.d
    [] i = 3 -> m.runway.k = "Infinity"
    [] i = 4 -> m.burnStatus.label = "Deficit"
    [] i = 5 -> m.invoiceRisk.label = "High"
    [] i = 6 -> m.invoiceRisk.label = "Medium"

RuleMessages ==
  <<MsgRunwayCritical, MsgRunwayWatch, MsgNoBurn, MsgCostReview,
    MsgChaseOverdue, MsgFollowUp>>

\* The messages of the rules that hold for m, by rule number from i on.
RECURSIVE MessagesFrom(_, _)
MessagesFrom(m, i) ==
  IF i > 6 THEN << >>
  ELSE (IF RuleHolds(m, i) THEN <<RuleMessages[i]>> ELSE << >>)
         \o MessagesFrom(m, i + 1)

\* C8: the insights are exactly the messages of the rules whose condition
\* holds, in rule order; rules 1, 2, 3 exclude each other, rules 5, 6
\* exclude each other, and at most 3 rules hold at once.
C8_OrderedRules ==
  metrics # << >> =>
    LET m == metrics[1]
    IN /\ m.insights = MessagesFrom(m, 1)
       /\ \A i, j \in {1, 2, 3} : (i # j) => ~(RuleHolds(m, i) /\ RuleHolds(m, j))
       /\ ~(RuleHolds(m, 5) /\ RuleHolds(m, 6))
       /\ Cardinality({i \in 1..6 : RuleHolds(m, i)}) <= 3

\* Rules 1, 4 and 5 held together and gave their messages in that order.
C8_Witness ==
  /\ metrics # << >>
  /\ metrics[1].insights = <<MsgRunwayCritical, MsgCostReview, MsgChaseOverdue>>

\* What the page shows for the snapshot d when nothing is left over from
\* earlier updates: by card, the one status class and the one badge class.
\* (Classes outside the three families are not the dashboard's.)
ShowsOnly(d) ==
  LET m == Metrics(d)
  IN /\ \A c \in CardIds :
          /\ cards[c].classList \cap StatusClasses
               = {"status-" \o CardLevel(m, c)}
          /\ badges[c].classList \cap BadgeClasses
               = {"badge-" \o CardLevel(m, c)}
          /\ badges[c].classList \cap FaceClasses
               = {"badge-face-" \o CardLevel(m, c)}
          /\ badges[c].innerHTML = getFaceBadge(CardLevel(m, c)).html
          /\ badges[c].ariaLabel = getFaceBadge(CardLevel(m, c)).aria
     /\ texts = DashboardTexts(d, m)
     /\ insightsList = m.insights

\* Once an update has run, the page shows its snapshot and nothing else.
C9_ShowsLastSnapshot == engineArg # << >> => ShowsOnly(engineArg[1])

\* An update with the same snapshot as the update before it changes
\* nothing on the page.
C9_Idempotent ==
  (engineArg # << >> /\ engineArg' = engineArg /\ prevArg' = engineArg)
    => /\ cards' = cards
       /\ badges' = badges
       /\ texts' = texts
       /\ insightsList' = insightsList
       /\ metrics' = metrics

\* C9: after any sequence of updates the page shows what the most recent
\* snapshot alone determines: one status class per card, one badge class
\* per badge, no insight of an earlier update; and an update with the same
\* snapshot as the one before changes nothing on the page.
C9_DisplayDependsOnlyOnSnapshot ==
  [](C9_ShowsLastSnapshot) /\ [][C9_Idempotent]_vars

\* An update with one insight followed an update with three insights and
\* other status levels.
C9_Witness ==
  /\ prevArg # << >>
  /\ Len(Metrics(prevArg[1]).insights) = 3
  /\ Metrics(prevArg[1]).cashStatus.level = "bad"
  /\ Len(metrics[1].insights) = 1
  /\ metrics[1].cashStatus.level = "ok"

\* C10: the burn label is Deficit exactly when the runway is finite and
\* Surplus exactly when it is Infinity, exactly one of the no-burn and
\* cost-review messages is produced, and the fallback message never is.
C10_ExactlyOneOfNoBurnAndCostReview ==
  metrics # << >> =>
    LET m == metrics[1]
        has(msg) == \E i \in 1..Len(m.insights) : m.insights[i] = msg
    IN /\ m.burnStatus.label = "Deficit" <=> m.runway.k = "num"
       /\ m.burnStatus.label = "Surplus" <=> m.runway.k = "Infinity"
       /\ has(MsgNoBurn) # has(MsgCostReview)
       /\ ~has(MsgStable)

----------------------------------------------------------------------------
\* The page with a log of the accepted submissions and of the engine calls.

\* Largest number of accepted submissions in a logged run.
MaxAccepted == 3

\* The forms of the logged runs: three that pass validation, with three
\* different records, and one that is rejected.
LoggedForms ==
  {Form("6000", "", "0", "0"),
   Form("6000", "", "2000", "0"),
   Form("1000", "", "2000", "2000.01"),
   Form("6000", "-5", "2000", "0")}

\* A submission; one that passes validation is logged.
SubmitLogged(f) ==
  /\ ValidSnapshot(ReadForm(f)) => Len(accepted) < MaxAccepted
  /\ Submit(f)
  /\ accepted' = IF ValidSnapshot(ReadForm(f))
                 THEN Append(accepted, ReadForm(f)) ELSE accepted
  /\ UNCHANGED applied

\* A timer callback; the argument of its updateDashboard call is logged.
TimerFiresLogged ==
  /\ TimerFires
  /\ applied' = Append(applied, engineArg'[1])
  /\ UNCHANGED accepted

NextLogged ==
  \/ \E f \in LoggedForms : SubmitLogged(f)
  \/ TimerFiresLogged

\* A step that takes the oldest timer off the queue. In a logged run these
\* are the steps of TimerFiresLogged, which is enabled exactly when a timer
\* is pending.
TimerRuns == timers # << >> /\ timers' = Tail(timers)

\* Every scheduled timer eventually fires: a callback stays pending from the
\* moment its timer is scheduled until it runs, and the event loop runs it.
SpecLogged == Init /\ [][NextLogged]_vars /\ WF_timers(TimerRuns)

\* The accepted submissions are the engine calls made so far followed by the
\* records of the pending timers: the calls are made in submission order,
\* each with the record of its own submission, none twice.
C11_InOrder == accepted = applied \o timers

\* With no update pending after some accepted submission, the page shows the
\* metrics of the last accepted submission and the button is enabled again.
C11_Settled ==
  (timers = << >> /\ accepted # << >>)
    => /\ engineArg = <<accepted[Len(accepted)]>>
       /\ metrics = <<Metrics(accepted[Len(accepted)])>>
       /\ ShowsOnly(accepted[Len(accepted)])
       /\ updateBtn = [textContent |-> "Update Dashboard", disabled |-> FALSE]

\* The k-th accepted submission is eventually followed by the k-th engine
\* call, which carries its record.
C11_EventuallyApplied ==
  \A k \in 1..MaxAccepted :
    (Len(accepted) >= k)
      ~> (Len(applied) >= k /\ applied[k] = accepted[k])

\* C11: with every scheduled timer eventually firing, in order, every
\* submission that passes validation is eventually followed by exactly one
\* updateDashboard call with its own record, the calls are made in
\* submission order, and once no update is pending the page shows the
\* metrics of the last accepted submission and the button is enabled with
\* the text "Update Dashboard".
C11_EveryAcceptedSubmissionIsApplied ==
  [](C11_InOrder) /\ [](C11_Settled) /\ C11_EventuallyApplied

\* Three different accepted submissions were all applied, the last one
\* while the form held a rejected submission.
C11_Witness ==
  /\ Len(applied) = 3
  /\ applied = accepted
  /\ applied[1] # applied[2]
  /\ applied[2] # applied[3]
  /\ timers = << >>
  /\ ~ValidSnapshot(Submitted)
  /\ ~updateBtn.disabled

====
